---- MODULE Spec2Model ----
(***************************************************************************)
(* Model of the request-mediation pipeline of src/main.py: client-key      *)
(* access control, the shared upstream token cache, the query sanitizer,   *)
(* the response scrubber and the per-endpoint handlers.                    *)
(*                                                                         *)
(* Text values (keys, field lists, where clauses) are sequences of         *)
(* one-character strings, so that strip / split / join are computed, not   *)
(* assumed.                                                                *)
(***************************************************************************)
EXTENDS Integers, Sequences, FiniteSets, TLC

VARIABLES
    clients,    \* clients.json: member "clients", client key -> record
    services,   \* services.json: member "services", alias -> definition
    env,        \* process configuration: auth type, credentials, gateway base,
                \* admin key
    cache,      \* TOKEN_CACHE: token and expires_at
    now,        \* time.time(), in seconds
    issued,     \* number of credential exchanges posted so far
    req,        \* the requests being handled: slot -> request record
    san,        \* one call of sanitize_outfields: arguments and result
    adm,        \* the admin operations being handled: slot -> operation record
    fsys,       \* the registry files and their temporary files on disk
    minted      \* number of client keys generated so far

vars == <<clients, services, env, cache, now, issued, req, san, adm, fsys,
          minted>>

----------------------------------------------------------------------------
(* Bounds of the model *)

NumRequests == 2      \* request slots that run concurrently
MaxExchanges == 2     \* credential exchanges posted in one behaviour
MaxNow == 60          \* the clock stops here
TickStep == 30        \* seconds per clock step
MaxLen == 4           \* characters in a requested outFields text
NumAdmins == 2        \* admin operations that run concurrently
MaxCreates == 1       \* client keys generated in one behaviour

(* Program constants *)

MARGIN == 60          \* TokenCache.valid: seconds kept before expires_at

----------------------------------------------------------------------------
(* Python text helpers *)

NoneStr == <<"None">>                     \* None of an Optional[str]
Falsy(s) == s = NoneStr \/ s = <<>>       \* `not s`
Or(a, b) == IF Falsy(a) THEN b ELSE a     \* `a or b`

RECURSIVE LStrip(_)
LStrip(s) == IF s # <<>> /\ Head(s) = " " THEN LStrip(Tail(s)) ELSE s

RECURSIVE RStrip(_)
RStrip(s) ==
    IF s # <<>> /\ s[Len(s)] = " " THEN RStrip(SubSeq(s, 1, Len(s) - 1)) ELSE s

Strip(s) == RStrip(LStrip(s))             \* str.strip()

RECURSIVE Split(_, _)
Split(s, sep) ==                          \* str.split(sep)
    IF \E i \in 1..Len(s) : s[i] = sep
    THEN LET i == CHOOSE k \in 1..Len(s) :
                      s[k] = sep /\ \A j \in 1..(k - 1) : s[j] # sep
         IN  <<SubSeq(s, 1, i - 1)>> \o Split(SubSeq(s, i + 1, Len(s)), sep)
    ELSE <<s>>

RECURSIVE Join(_, _)
Join(l, sep) ==                           \* sep.join(l)
    IF l = <<>> THEN <<>>
    ELSE IF Len(l) = 1 THEN l[1]
    ELSE l[1] \o <<sep>> \o Join(Tail(l), sep)

InList(x, l) == \E i \in 1..Len(l) : l[i] = x     \* `x in l`

MapStrip(l) == [i \in 1..Len(l) |-> Strip(l[i])]

NonBlank(f) == f # <<>>

----------------------------------------------------------------------------
(* Query safety helpers *)

\* sanitize_outfields without the fall-back to the whole whitelist
sanitize_outfields_no_fallback(requested, allowed) ==
    IF Falsy(requested) \/ Strip(requested) = <<"*">>
    THEN Join(allowed, ",")
    ELSE LET fields == SelectSeq(MapStrip(Split(requested, ",")), NonBlank)
             Allowed(f) == InList(f, allowed)
         IN  Join(SelectSeq(fields, Allowed), ",")

\* sanitize_outfields without the membership test
sanitize_outfields_unfiltered(requested, allowed) ==
    IF Falsy(requested) \/ Strip(requested) = <<"*">>
    THEN Join(allowed, ",")
    ELSE LET fields == SelectSeq(MapStrip(Split(requested, ",")), NonBlank)
         IN  IF fields # <<>> THEN Join(fields, ",") ELSE Join(allowed, ",")

sanitize_outfields(requested, allowed) ==
    IF Falsy(requested) \/ Strip(requested) = <<"*">>
    THEN Join(allowed, ",")
    ELSE LET fields == SelectSeq(MapStrip(Split(requested, ",")), NonBlank)
             Allowed(f) == InList(f, allowed)
             safe == SelectSeq(fields, Allowed)
         IN  IF safe # <<>> THEN Join(safe, ",") ELSE Join(allowed, ",")

\* a variant that forgets the client's lock
apply_where_lock_unlocked(client_rec, alias, where) == where

apply_where_lock(client_rec, alias, where) ==
    LET lock_map == client_rec.where_lock
        lock == IF alias \in DOMAIN lock_map THEN lock_map[alias] ELSE <<>>
    IN  IF lock = <<>> THEN where
        ELSE <<"(">> \o where \o <<")", " ", "A", "N", "D", " ", "(">>
                   \o lock \o <<")">>

----------------------------------------------------------------------------
(* Registry contents and process configuration *)

K1 == <<"1">>         \* client keys
K2 == <<"2">>
K3 == <<"3">>
K4 == <<"4">>
K5 == <<"5">>         \* never registered

FA == <<"a">>         \* field names
FB == <<"b">>
FZ == <<"z">>         \* a field outside every whitelist

NoLock == [a \in {} |-> <<>>]
ParksLock == [a \in {"parks"} |-> <<"s", "=", "1">>]

ClientRec(name, svcs, disabled, lock) ==
    [name |-> name, services |-> svcs, disabled |-> disabled, where_lock |-> lock]

NoRec == ClientRec("", <<>>, FALSE, NoLock)

InitClients ==
    (K1 :> ClientRec("all", <<>>, FALSE, NoLock))
    @@ (K2 :> ClientRec("parks-only", <<"parks">>, FALSE, ParksLock))
    @@ (K3 :> ClientRec("off", <<>>, TRUE, NoLock))
    @@ (K4 :> ClientRec("off-roads", <<"roads">>, TRUE, NoLock))

ServiceDef(qurl, base, fields) ==
    [feature_layer_query_url |-> qurl, vector_tile_base |-> base,
     allowed_out_fields |-> fields]

NoSvc == ServiceDef("", "", <<>>)

\* "parks" is a complete definition; "roads" lacks its whitelist and tile base.
InitServices ==
    [a \in {"parks", "roads"} |->
        IF a = "parks" THEN ServiceDef("fl/parks/query", "vt/parks", <<FA, FB>>)
        ELSE ServiceDef("fl/roads/query", "", <<>>)]

Aliases == {"parks", "roads", "ghost"}    \* "ghost" is not registered

EnvOk ==
    [auth_type |-> "generateToken", creds |-> TRUE, public_base |-> "gw",
     admin_key |-> <<"s">>]

Envs ==
    {EnvOk,
     [EnvOk EXCEPT !.auth_type = "oauth"],
     [EnvOk EXCEPT !.creds = FALSE],
     [EnvOk EXCEPT !.public_base = ""]}

PUBLIC_PROXY_BASE == env.public_base
ADMIN_KEY == env.admin_key

----------------------------------------------------------------------------
(* Results of the checks a handler makes: status 0 is success *)

Pass(rec) == [status |-> 0, detail |-> "", rec |-> rec]
Fail(status, detail) == [status |-> status, detail |-> detail, rec |-> NoRec]

(* Client key enforcement *)

\* get_client_record without the test of disabled
get_client_record_ignores_disabled(client_key) ==
    IF client_key \notin DOMAIN clients
    THEN Fail(401, "Unauthorized: invalid key")
    ELSE Pass(clients[client_key])

get_client_record(client_key) ==
    IF client_key \notin DOMAIN clients
    THEN Fail(401, "Unauthorized: invalid key")
    ELSE IF clients[client_key].disabled = TRUE
    THEN Fail(401, "Unauthorized: key disabled")
    ELSE Pass(clients[client_key])

ClientKey(x_api_key, key) == Strip(Or(Or(x_api_key, key), <<>>))

\* enforce_access without the test of the service list
enforce_access_any_service(alias, x_api_key, key) ==
    LET client_key == ClientKey(x_api_key, key)
    IN  IF client_key = <<>>
        THEN Fail(401, "Unauthorized: missing key")
        ELSE get_client_record(client_key)

\* enforce_access testing the service list before disabled
enforce_access_forbidden_first(alias, x_api_key, key) ==
    LET client_key == ClientKey(x_api_key, key)
    IN  IF client_key = <<>>
        THEN Fail(401, "Unauthorized: missing key")
        ELSE IF /\ client_key \in DOMAIN clients
                /\ clients[client_key].services # <<>>
                /\ ~InList(alias, clients[client_key].services)
        THEN Fail(403, "Forbidden: service not allowed for this key")
        ELSE get_client_record(client_key)

enforce_access(alias, x_api_key, key) ==
    LET client_key == ClientKey(x_api_key, key)
    IN  IF client_key = <<>>
        THEN Fail(401, "Unauthorized: missing key")
        ELSE LET got == get_client_record(client_key)
                 allowed == got.rec.services
             IN  IF got.status # 0 THEN got
                 ELSE IF allowed # <<>> /\ ~InList(alias, allowed)
                 THEN Fail(403, "Forbidden: service not allowed for this key")
                 ELSE got

\* list_services authenticates the key without an alias
list_services_access(x_api_key, key) ==
    LET client_key == ClientKey(x_api_key, key)
    IN  IF client_key = <<>>
        THEN Fail(401, "Unauthorized: missing key")
        ELSE get_client_record(client_key)

require_public_base ==
    IF PUBLIC_PROXY_BASE = ""
    THEN Fail(500, "Set PUBLIC_PROXY_BASE")
    ELSE Pass(NoRec)

----------------------------------------------------------------------------
(* AGOL token caching *)

NoToken == 0          \* TokenCache.token is None

\* TokenCache.valid without the test of the expiry
valid_ignores_expiry == cache.token # NoToken

\* TokenCache.valid without the safety margin
valid_without_margin == cache.token # NoToken /\ now < cache.expires_at

valid == cache.token # NoToken /\ now < cache.expires_at - MARGIN

\* get_agol_token before the POST: what stops the exchange from being made
token_precheck ==
    IF env.auth_type # "generateToken"
    THEN Fail(500, "Unsupported auth.type (expected generateToken)")
    ELSE IF ~env.creds
    THEN Fail(500, "Missing AGOL credentials env vars")
    ELSE Pass(NoRec)

\* a variant that gives one reason for every failed exchange
token_reply_one_reason(j) ==
    IF j.has_error \/ j.token = NoToken \/ j.expires = 0
    THEN Fail(500, "AGOL token error")
    ELSE Pass(NoRec)

\* get_agol_token after the POST: the reply j decides the outcome
token_reply(j) ==
    IF j.has_error
    THEN Fail(500, "AGOL token error")
    ELSE IF j.token = NoToken \/ j.expires = 0
    THEN Fail(500, "AGOL token response missing token/expires")
    ELSE Pass(NoRec)

ExpiresAt(expires_ms) == expires_ms \div 1000

----------------------------------------------------------------------------
(* Requests *)

Reqs == 1..NumRequests

Endpoints ==
    {"query", "identify", "services", "style", "tile", "sprite_json",
     "sprite_png", "sprite2x_json", "sprite2x_png", "fonts"}

SpriteEndpoints == {"sprite_json", "sprite_png", "sprite2x_json", "sprite2x_png"}

\* The steps of each handler, in the order of its code. "exchange" and "recv"
\* are the handler waiting for the reply to the call the step before posted.
query_attributes_only == <<"auth", "load", "token", "exchange", "send", "recv">>
identify_attributes_only == <<"auth", "load", "token", "exchange", "send", "recv">>
vt_style == <<"auth", "base", "load", "token", "exchange", "send", "recv">>
\* vt_tile fetching the token before it authorizes
vt_tile_token_first == <<"token", "exchange", "auth", "load", "send", "recv">>
vt_tile == <<"auth", "load", "token", "exchange", "send", "recv">>
vt_sprite == <<"auth", "load", "token", "exchange", "send", "recv">>
vt_fonts == <<"auth", "load", "token", "exchange", "send", "recv">>
list_services == <<"key", "list">>

Pipeline(ep) ==
    CASE ep = "query" -> query_attributes_only
      [] ep = "identify" -> identify_attributes_only
      [] ep = "style" -> vt_style
      [] ep = "tile" -> vt_tile
      [] ep \in SpriteEndpoints -> vt_sprite
      [] ep = "fonts" -> vt_fonts
      [] ep = "services" -> list_services
      [] OTHER -> <<>>

NoCall == [url |-> <<>>, where |-> <<>>, outFields |-> <<>>, token |-> NoToken]
NoBody == [kind |-> "none"]
NoReply == [kind |-> "none"]     \* no upstream answer received
NoGrant == [kind |-> "none"]     \* no refused credential exchange

IdleReq ==
    [ep |-> "none", alias |-> "", hdr |-> NoneStr, qs |-> NoneStr, ip |-> 0,
     status |-> 0, detail |-> "", authorized |-> FALSE, rec |-> NoRec,
     svc |-> NoSvc, token |-> NoToken, src |-> "none", xid |-> 0,
     nAuth |-> 0, nData |-> 0, where |-> <<>>, outFields |-> NoneStr,
     sent |-> NoCall, grant |-> NoGrant, reply |-> NoReply, body |-> NoBody]

Running(r) == req[r].ep # "none" /\ req[r].status = 0
Step(r) == IF Running(r) THEN Pipeline(req[r].ep)[req[r].ip] ELSE "none"
Done(r) == req[r].status # 0

\* the handler raises HTTPException(status, detail), or returns a response
Respond(r, status, detail, body) ==
    req' = [req EXCEPT ![r] = [@ EXCEPT !.status = status, !.detail = detail,
                                         !.body = body]]

Raise(r, res) == Respond(r, res.status, res.detail, [kind |-> "error"])

\* the handler got the upstream's answer and returns the response made of it
Answer(r, reply, res) ==
    req' = [req EXCEPT ![r] = [@ EXCEPT !.reply = reply, !.status = res.status,
                                         !.body = res.body]]

(* Request inputs *)

HdrInputs == {NoneStr, <<" ">>, K1, K3}
QsInputs == {NoneStr, <<>>, K1, <<" ", "1">>, K2, K3, K4, K5}

Inputs ==
    {i \in [ep : Endpoints, alias : Aliases, hdr : HdrInputs, qs : QsInputs] :
        /\ i.ep = "services" => i.alias = "parks"
        /\ i.ep \in SpriteEndpoints => i.hdr = NoneStr /\ ~Falsy(i.qs)}

\* the requests of the token specification: authorized tile requests
TokenInputs ==
    {i \in [ep : {"tile"}, alias : {"parks"}, hdr : {NoneStr}, qs : {K1}] :
        TRUE}

Start(r, inputs) ==
    /\ req[r].ep = "none"
    /\ \E i \in inputs :
          req' = [req EXCEPT ![r] = [IdleReq EXCEPT !.ep = i.ep, !.alias = i.alias,
                                               !.hdr = i.hdr, !.qs = i.qs, !.ip = 1]]
    /\ UNCHANGED <<clients, services, env, cache, now, issued, san, adm, fsys, minted>>

\* the response has been delivered
Finish(r) ==
    /\ Done(r)
    /\ req' = [req EXCEPT ![r] = IdleReq]
    /\ UNCHANGED <<clients, services, env, cache, now, issued, san, adm, fsys, minted>>

(* Steps before the token *)

Authorize(r) ==
    /\ Step(r) = "auth"
    /\ LET res == enforce_access(req[r].alias, req[r].hdr, req[r].qs)
       IN  IF res.status # 0 THEN Raise(r, res)
           ELSE req' = [req EXCEPT ![r] = [@ EXCEPT !.authorized = TRUE,
                                                    !.rec = res.rec, !.ip = @ + 1]]
    /\ UNCHANGED <<clients, services, env, cache, now, issued, san, adm, fsys, minted>>

CheckKey(r) ==
    /\ Step(r) = "key"
    /\ LET res == list_services_access(req[r].hdr, req[r].qs)
       IN  IF res.status # 0 THEN Raise(r, res)
           ELSE req' = [req EXCEPT ![r] = [@ EXCEPT !.authorized = TRUE,
                                                    !.rec = res.rec, !.ip = @ + 1]]
    /\ UNCHANGED <<clients, services, env, cache, now, issued, san, adm, fsys, minted>>

RequireBase(r) ==
    /\ Step(r) = "base"
    /\ LET res == require_public_base
       IN  IF res.status # 0 THEN Raise(r, res)
           ELSE req' = [req EXCEPT ![r].ip = @ + 1]
    /\ UNCHANGED <<clients, services, env, cache, now, issued, san, adm, fsys, minted>>

\* a variant that does not check the field the handler needs
load_service_unchecked(ep, alias) ==
    IF alias \notin DOMAIN services
    THEN Fail(404, "Unknown service alias")
    ELSE Pass(NoRec)

\* load_services, the alias lookup and the check of the field the handler needs
load_service(ep, alias) ==
    IF alias \notin DOMAIN services
    THEN Fail(404, "Unknown service alias")
    ELSE IF ep \in {"query", "identify"} /\ services[alias].allowed_out_fields = <<>>
    THEN Fail(500, "allowed_out_fields missing for service")
    ELSE IF ep \notin {"query", "identify"} /\ services[alias].vector_tile_base = ""
    THEN Fail(500, "vector_tile_base missing for service")
    ELSE Pass(NoRec)

LoadService(r) ==
    /\ Step(r) = "load"
    /\ LET res == load_service(req[r].ep, req[r].alias)
       IN  IF res.status # 0 THEN Raise(r, res)
           ELSE req' = [req EXCEPT ![r] = [@ EXCEPT !.svc = services[req[r].alias],
                                                    !.ip = @ + 1]]
    /\ UNCHANGED <<clients, services, env, cache, now, issued, san, adm, fsys, minted>>

\* a variant that lists every registered alias to every client
ListServices_unfiltered(r) ==
    /\ Step(r) = "list"
    /\ Respond(r, 200, "", [kind |-> "list", services |-> DOMAIN services])
    /\ UNCHANGED <<clients, services, env, cache, now, issued, san, adm, fsys, minted>>

ListServices(r) ==
    /\ Step(r) = "list"
    /\ LET allowed == req[r].rec.services
           Visible(a) == allowed = <<>> \/ InList(a, allowed)
           aliases == {a \in DOMAIN services : Visible(a)}
       IN  Respond(r, 200, "", [kind |-> "list", services |-> aliases])
    /\ UNCHANGED <<clients, services, env, cache, now, issued, san, adm, fsys, minted>>

----------------------------------------------------------------------------
(* get_agol_token *)

Lifetimes == {30, 90}     \* seconds until the expiry the upstream reports

\* the replies the authentication endpoint can give to exchange number xid
TokenReplies(xid) ==
    {[has_error |-> FALSE, token |-> xid, expires |-> (now + lt) * 1000] :
        lt \in Lifetimes}
    \cup {[has_error |-> TRUE, token |-> xid, expires |-> (now + 90) * 1000],
          [has_error |-> FALSE, token |-> NoToken, expires |-> (now + 90) * 1000],
          [has_error |-> FALSE, token |-> xid, expires |-> 0]}

\* up to the POST: the cached token, a configuration failure, or the exchange
GetToken(r) ==
    /\ Step(r) = "token"
    /\ IF valid
       THEN /\ req' = [req EXCEPT ![r] = [@ EXCEPT !.token = cache.token,
                                                   !.src = "cache", !.ip = @ + 2]]
            /\ UNCHANGED issued
       ELSE LET res == token_precheck
            IN  IF res.status # 0
                THEN Raise(r, res) /\ UNCHANGED issued
                ELSE /\ issued < MaxExchanges
                     /\ issued' = issued + 1
                     /\ req' = [req EXCEPT ![r] = [@ EXCEPT !.xid = issued + 1,
                                                            !.nAuth = @ + 1,
                                                            !.ip = @ + 1]]
    /\ UNCHANGED <<clients, services, env, cache, now, san, adm, fsys, minted>>

\* from the reply of the POST to the return
ExchangeReply(r) ==
    /\ Step(r) = "exchange"
    /\ \E j \in TokenReplies(req[r].xid) :
          LET res == token_reply(j)
          IN  IF res.status # 0
              THEN /\ req' = [req EXCEPT ![r] = [@ EXCEPT !.grant = j,
                                                          !.status = res.status,
                                                          !.detail = res.detail,
                                                          !.body = [kind |-> "error"]]]
                   /\ UNCHANGED cache
              ELSE /\ cache' = [token |-> j.token,
                                expires_at |-> ExpiresAt(j.expires)]
                   /\ req' = [req EXCEPT ![r] = [@ EXCEPT !.token = j.token,
                                                          !.src = "exchange",
                                                          !.ip = @ + 1]]
    /\ UNCHANGED <<clients, services, env, now, issued, san, adm, fsys, minted>>

Tick ==
    /\ now + TickStep <= MaxNow
    /\ now' = now + TickStep
    /\ UNCHANGED <<clients, services, env, cache, issued, req, san, adm, fsys, minted>>

----------------------------------------------------------------------------
(* The upstream call of each handler *)

Wheres == {<<"1", "=", "1">>, <<"p", ">", "0">>}

OutFieldsInputs ==
    {NoneStr, <<>>, <<"*">>, <<"a">>, <<"z">>, <<"a", ",", "z">>,
     <<"b", ",", " ", "a">>}

query_params(client_rec, alias, svc, where, outFields, token) ==
    [url |-> <<svc.feature_layer_query_url>>,
     where |-> apply_where_lock(client_rec, alias, where),
     outFields |-> sanitize_outfields(outFields, svc.allowed_out_fields),
     token |-> token]

identify_params(client_rec, alias, svc, token) ==
    [url |-> <<svc.feature_layer_query_url>>,
     where |-> apply_where_lock(client_rec, alias, <<"1", "=", "1">>),
     outFields |-> Join(svc.allowed_out_fields, ","),
     token |-> token]

UpstreamPath(ep) ==
    CASE ep = "style" -> "resources/styles/root.json"
      [] ep = "tile" -> "tile/z/y/x.pbf"
      [] ep = "sprite_json" -> "resources/sprites/sprite.json"
      [] ep = "sprite_png" -> "resources/sprites/sprite.png"
      [] ep = "sprite2x_json" -> "resources/sprites/sprite@2x.json"
      [] ep = "sprite2x_png" -> "resources/sprites/sprite@2x.png"
      [] ep = "fonts" -> "resources/fonts/fontstack/range.pbf"

fetch_params(ep, svc, token) ==
    [url |-> <<svc.vector_tile_base, UpstreamPath(ep)>>, where |-> <<>>,
     outFields |-> <<>>, token |-> token]

SendUpstream(r) ==
    /\ Step(r) = "send"
    /\ \E w \in Wheres, o \in OutFieldsInputs :
          /\ req[r].ep # "query" => w = <<"1", "=", "1">> /\ o = NoneStr
          /\ LET q == req[r]
                 call == CASE q.ep = "query" ->
                                query_params(q.rec, q.alias, q.svc, w, o, q.token)
                           [] q.ep = "identify" ->
                                identify_params(q.rec, q.alias, q.svc, q.token)
                           [] OTHER -> fetch_params(q.ep, q.svc, q.token)
             IN  req' = [req EXCEPT ![r] = [@ EXCEPT !.where = w, !.outFields = o,
                                                      !.sent = call,
                                                      !.nData = @ + 1,
                                                      !.ip = @ + 1]]
    /\ UNCHANGED <<clients, services, env, cache, now, issued, san, adm, fsys, minted>>

----------------------------------------------------------------------------
(* Upstream payloads and the response scrubber *)

Feature(attrs, geometry) == [attributes |-> attrs, geometry |-> geometry]

\* what the feature layer may answer: attributes are listed by name, in the
\* upstream's order; geometry says whether the feature has that member
FeatureLists ==
    {<<>>,
     <<Feature(<<FA>>, FALSE)>>,
     <<Feature(<<FA, FB>>, TRUE)>>,
     <<Feature(<<FZ, FA>>, FALSE)>>,
     <<Feature(<<FB, FA>>, TRUE), Feature(<<FZ>>, TRUE)>>,
     <<Feature(<<>>, TRUE)>>}

QueryPayloads ==
    [has_error : BOOLEAN, has_features : {TRUE}, features : FeatureLists]
    \cup {[has_error |-> e, has_features |-> FALSE, features |-> <<>>] :
             e \in BOOLEAN}

\* a variant that leaves the geometry member in place
DropGeometry_kept(f) == f

DropGeometry(f) == [f EXCEPT !.geometry = FALSE]       \* f.pop("geometry", None)

\* a variant that scrubs and returns an upstream error as a success
query_response_hides_error(j) ==
    [status |-> 200,
     body |-> [kind |-> "json",
               j |-> [j EXCEPT !.has_features = TRUE,
                               !.features = [i \in 1..Len(j.features) |->
                                                [j.features[i] EXCEPT
                                                    !.geometry = FALSE]]]]]

query_response(j) ==
    IF j.has_error
    THEN [status |-> 400, body |-> [kind |-> "json", j |-> j]]
    ELSE [status |-> 200,
          body |-> [kind |-> "json",
                    j |-> [j EXCEPT !.has_features = TRUE,
                                    !.features = [i \in 1..Len(j.features) |->
                                                     DropGeometry(j.features[i])]]]]

\* a variant that keeps the whitelisted attributes in the upstream's order
identify_response_upstream_order(j, allowed) ==
    IF j.has_error
    THEN [status |-> 400, body |-> [kind |-> "json", j |-> j]]
    ELSE LET Kept(f) == LET Ok(k) == InList(k, allowed)
                        IN  SelectSeq(f.attributes, Ok)
             cleaned == [i \in 1..Len(j.features) |->
                            [attributes |-> Kept(j.features[i])]]
         IN  [status |-> 200,
              body |-> [kind |-> "identify", count |-> Len(cleaned),
                        results |-> cleaned]]

identify_response(j, allowed) ==
    IF j.has_error
    THEN [status |-> 400, body |-> [kind |-> "json", j |-> j]]
    ELSE LET Kept(f) == LET In(k) == InList(k, f.attributes)
                        IN  SelectSeq(allowed, In)
             cleaned == [i \in 1..Len(j.features) |->
                            [attributes |-> Kept(j.features[i])]]
         IN  [status |-> 200,
              body |-> [kind |-> "identify", count |-> Len(cleaned),
                        results |-> cleaned]]

(* Vector tile resources *)

UpstreamStatuses == {200, 404, 500}

PassesNotFound == {"tile", "sprite2x_json", "sprite2x_png", "fonts"}

MediaType(ep) ==
    CASE ep \in {"tile", "fonts"} -> "application/x-protobuf"
      [] ep \in {"sprite_png", "sprite2x_png"} -> "image/png"
      [] OTHER -> "application/json"

\* status_code == 404 where the handler tests it, then raise_for_status
fetch_response(ep, status, content) ==
    IF status = 404 /\ ep \in PassesNotFound
    THEN [status |-> 404, body |-> [kind |-> "empty"]]
    ELSE IF status # 200
    THEN [status |-> 500, body |-> [kind |-> "error"]]
    ELSE [status |-> 200,
          body |-> [kind |-> "bytes", content |-> content,
                    media_type |-> MediaType(ep)]]

(* Style documents *)

NoUrl == [host |-> "absent", path |-> "", alias |-> "", key |-> NoneStr,
          token |-> NoToken]
UpUrl(tok) == [NoUrl EXCEPT !.host = "upstream", !.token = tok]
GwUrl(path, alias, key) ==
    [host |-> PUBLIC_PROXY_BASE, path |-> path, alias |-> alias, key |-> key,
     token |-> NoToken]

Source(type, url, tiles, scheme, minzoom, maxzoom) ==
    [type |-> type, url |-> url, tiles |-> tiles, scheme |-> scheme,
     minzoom |-> minzoom, maxzoom |-> maxzoom]

Absent == -1          \* a member the document does not have

StyleDocs(tok) ==
    {[sources |-> [n \in {"esri"} |->
                      Source("vector", UpUrl(tok), <<>>, "absent", Absent, Absent)],
      sprite |-> UpUrl(NoToken), glyphs |-> UpUrl(NoToken)],
     [sources |-> [n \in {"esri"} |->
                      Source("vector", NoUrl, <<UpUrl(tok)>>, "tms", 2, 10)],
      sprite |-> NoUrl, glyphs |-> NoUrl],
     [sources |-> [n \in {"img"} |->
                      Source("raster", NoUrl, <<UpUrl(tok)>>, "absent", Absent, Absent)],
      sprite |-> UpUrl(tok), glyphs |-> NoUrl],
     [sources |-> [n \in {} |-> Source("vector", NoUrl, <<>>, "absent", Absent, Absent)],
      sprite |-> NoUrl, glyphs |-> UpUrl(tok)]}

SetDefault(v, absent, d) == IF v = absent THEN d ELSE v

rewrite_source(src, alias, key_q) ==
    LET popped == [src EXCEPT !.url = NoUrl]
    IN  IF src.type = "vector"
        THEN [popped EXCEPT
                 !.tiles = <<GwUrl("tile/{z}/{y}/{x}.pbf?key=", alias, key_q)>>,
                 !.scheme = SetDefault(@, "absent", "xyz"),
                 !.minzoom = SetDefault(@, Absent, 0),
                 !.maxzoom = SetDefault(@, Absent, 23)]
        ELSE popped

style_response(style, alias, x_api_key, key) ==
    LET key_q == Strip(Or(Or(key, x_api_key), <<>>))
    IN  [status |-> 200,
         body |-> [kind |-> "style",
                   style |->
                     [sources |-> [n \in DOMAIN style.sources |->
                                      rewrite_source(style.sources[n], alias, key_q)],
                      sprite |-> IF style.sprite = NoUrl THEN NoUrl
                                 ELSE GwUrl("sprite/", alias, key_q),
                      glyphs |-> IF style.glyphs = NoUrl THEN NoUrl
                                 ELSE GwUrl("fonts/{fontstack}/{range}.pbf?key=",
                                            alias, key_q)]]]

RecvUpstream(r) ==
    /\ Step(r) = "recv"
    /\ LET q == req[r]
       IN  CASE q.ep = "query" ->
                  \E j \in QueryPayloads :
                     Answer(r, j, query_response(j))
             [] q.ep = "identify" ->
                  \E j \in QueryPayloads :
                     Answer(r, j, identify_response(j, q.svc.allowed_out_fields))
             [] q.ep = "style" ->
                  \E doc \in StyleDocs(q.token) :
                     Answer(r, doc, style_response(doc, q.alias, q.hdr, q.qs))
             [] OTHER ->
                  \E st \in UpstreamStatuses :
                     Answer(r, [status |-> st, content |-> "payload"],
                            fetch_response(q.ep, st, "payload"))
    /\ UNCHANGED <<clients, services, env, cache, now, issued, san, adm, fsys, minted>>

----------------------------------------------------------------------------
(* Registry files *)

Registries == {"clients", "services"}      \* CLIENTS_CONFIG, SERVICES_CONFIG

\* a file is absent, empty (opened for writing, nothing written yet), one
\* whole document, or bytes of more than one document
NoFile == [state |-> "none", doc |-> <<>>]
EmptyFile == [state |-> "empty", doc |-> <<>>]
MixedFile == [state |-> "mixed", doc |-> <<>>]
FileOf(doc) == [state |-> "doc", doc |-> doc]

\* both registry files hold a whole document, no temporary file exists
InitFsys == [R \in Registries |-> [main |-> "doc", tmp |-> NoFile]]

\* the document of the registry file, meaningful while the file is whole
Document(R) == IF R = "clients" THEN clients ELSE services

MainFile(R) ==
    IF fsys[R].main = "doc" THEN FileOf(Document(R))
    ELSE [state |-> fsys[R].main, doc |-> <<>>]

\* json.load of the registry file: JSONDecodeError unless it is whole
load_json(R) ==
    IF fsys[R].main = "doc"
    THEN Pass(Document(R))
    ELSE Fail(500, "Invalid JSON")

\* what a file may hold after a writer that opened it writes doc from offset
\* 0: doc if the file was empty or held no more bytes than doc, else doc
\* followed by the tail of what another writer had put there
Written(file, doc) ==
    IF file.state = "empty" \/ file = FileOf(doc)
    THEN {FileOf(doc)}
    ELSE {FileOf(doc), MixedFile}

\* the registry file and its temporary file become main and tmp
SetFiles(R, main, tmp) ==
    /\ fsys' = [fsys EXCEPT ![R] = [main |-> main.state, tmp |-> tmp]]
    /\ IF R = "clients"
       THEN /\ clients' = IF main.state = "doc" THEN main.doc ELSE clients
            /\ UNCHANGED services
       ELSE /\ services' = IF main.state = "doc" THEN main.doc ELSE services
            /\ UNCHANGED clients

----------------------------------------------------------------------------
(* Admin key enforcement and the admin handlers' updates *)

\* a variant that lets a request without any key through
require_admin_open_when_missing(x_admin_key, admin_key_qs) ==
    IF Falsy(ADMIN_KEY)
    THEN Fail(500, "ADMIN_KEY not set")
    ELSE LET provided == Strip(Or(Or(x_admin_key, admin_key_qs), <<>>))
         IN  IF provided # <<>> /\ provided # ADMIN_KEY
             THEN Fail(401, "invalid admin key")
             ELSE Pass(NoRec)

require_admin(x_admin_key, admin_key_qs) ==
    IF Falsy(ADMIN_KEY)
    THEN Fail(500, "ADMIN_KEY not set")
    ELSE LET provided == Strip(Or(Or(x_admin_key, admin_key_qs), <<>>))
         IN  IF provided # ADMIN_KEY
             THEN Fail(401, "invalid admin key")
             ELSE Pass(NoRec)

RECURSIVE RStripSlash(_)
RStripSlash(s) ==                         \* str.rstrip("/")
    IF s # <<>> /\ s[Len(s)] = "/"
    THEN RStripSlash(SubSeq(s, 1, Len(s) - 1))
    ELSE s

EndsWith(s, suffix) ==                    \* str.endswith(suffix)
    /\ Len(s) >= Len(suffix)
    /\ SubSeq(s, Len(s) - Len(suffix) + 1, Len(s)) = suffix

QuerySuffix == <<"/", "q", "u", "e", "r", "y">>

\* cfg[key] = value
Put(cfg, key, value) ==
    [k \in DOMAIN cfg \cup {key} |-> IF k = key THEN value ELSE cfg[k]]

\* [f.strip() for f in text.split(",") if f.strip()]
NameList(text) == SelectSeq(MapStrip(Split(text, ",")), NonBlank)

\* admin_register_service between load_services and write_json_atomic
register_service(cfg, alias, feature_layer_query_url, vector_tile_base, allowed_out_fields) ==
    LET fields == NameList(allowed_out_fields)
    IN  IF fields = <<>>
        THEN Fail(400, "allowed_out_fields cannot be empty")
        ELSE IF ~EndsWith(RStripSlash(feature_layer_query_url), QuerySuffix)
        THEN Fail(400, "feature_layer_query_url must end with /query")
        ELSE Pass(Put(cfg, alias,
                      ServiceDef(feature_layer_query_url, vector_tile_base,
                                 fields)))

\* "CK_" + secrets.token_urlsafe(24): the n-th key generated
NewKey(n) == <<"C", "K", "_", ToString(n)>>

\* admin_create_client between load_clients and write_json_atomic
create_client(cfg, new_key, name, services_text, disabled) ==
    Pass(Put(cfg, new_key,
             ClientRec(name, NameList(services_text), disabled, NoLock)))

\* a variant that writes a fresh record in place of the one it disables
disable_client_resets_record(cfg, client_key, disabled) ==
    IF client_key \notin DOMAIN cfg
    THEN Fail(404, "Unknown client key")
    ELSE Pass([cfg EXCEPT ![client_key] = ClientRec("", <<>>, disabled, NoLock)])

\* admin_disable_client between load_clients and write_json_atomic
disable_client(cfg, client_key, disabled) ==
    IF client_key \notin DOMAIN cfg
    THEN Fail(404, "Unknown client key")
    ELSE Pass([cfg EXCEPT ![client_key].disabled = disabled])

----------------------------------------------------------------------------
(* The admin handlers, step by step. They are plain functions, which the     *)
(* server runs on worker threads: their steps interleave.                    *)

Admins == 1..NumAdmins

AdminOps ==
    {"list_services", "register_service", "list_clients", "create_client",
     "disable_client"}

admin_list_services == <<"admin", "load">>
admin_list_clients == <<"admin", "load">>
admin_register_service == <<"admin", "load", "update", "open", "write", "replace">>
admin_create_client == <<"admin", "load", "update", "open", "write", "replace">>
admin_disable_client == <<"admin", "load", "update", "open", "write", "replace">>

AdminPipeline(op) ==
    CASE op = "list_services" -> admin_list_services
      [] op = "list_clients" -> admin_list_clients
      [] op = "register_service" -> admin_register_service
      [] op = "create_client" -> admin_create_client
      [] op = "disable_client" -> admin_disable_client
      [] OTHER -> <<>>

\* the registry file the operation works on
RegistryOf(op) ==
    IF op \in {"list_services", "register_service"} THEN "services"
    ELSE "clients"

NoArgs ==
    [alias |-> "", feature_layer_query_url |-> <<>>, vector_tile_base |-> "",
     allowed_out_fields |-> <<>>, name |-> "", services |-> <<>>,
     disabled |-> FALSE, client_key |-> <<>>]

\* fd is where the file the operation has open for writing is now: under the
\* temporary name, under the registry's name, under no name, or not open
IdleAdm ==
    [op |-> "none", hdr |-> NoneStr, qs |-> NoneStr, ip |-> 0, status |-> 0,
     detail |-> "", args |-> NoArgs, cfg |-> <<>>, fd |-> "none",
     nRead |-> 0, nWrite |-> 0, body |-> NoBody]

AdminRunning(a) == adm[a].op # "none" /\ adm[a].status = 0
AdminStep(a) ==
    IF AdminRunning(a) THEN AdminPipeline(adm[a].op)[adm[a].ip] ELSE "none"
AdminDone(a) == adm[a].status # 0

AdminRaise(a, res) ==
    adm' = [adm EXCEPT ![a] = [@ EXCEPT !.status = res.status,
                                         !.detail = res.detail,
                                         !.body = [kind |-> "error"]]]

(* Admin inputs *)

AdminHdrInputs == {NoneStr, <<"s">>, <<"x">>}
AdminQsInputs == {NoneStr, <<" ", "s">>}

AdminInputs == [op : AdminOps, hdr : AdminHdrInputs, qs : AdminQsInputs]

GoodUrl == <<"h", "/", "q", "u", "e", "r", "y">>
SlashUrl == GoodUrl \o <<"/">>
BadUrl == <<"h", "/", "q">>

RegisterArgs ==
    {[NoArgs EXCEPT !.alias = al, !.feature_layer_query_url = u,
                    !.vector_tile_base = "vt", !.allowed_out_fields = f] :
        al \in {"parks", "lakes"}, u \in {GoodUrl, SlashUrl, BadUrl},
        f \in {<<"a">>, <<" ", ",">>}}

CreateArgs ==
    {[NoArgs EXCEPT !.name = "new", !.services = <<>>],
     [NoArgs EXCEPT !.name = "new", !.services = <<"p", ",", " ">>,
                    !.disabled = TRUE]}

DisableArgs ==
    {[NoArgs EXCEPT !.client_key = k, !.disabled = d] :
        k \in {K1, K5}, d \in BOOLEAN}

AdminArgs ==
    [register |-> RegisterArgs, create |-> CreateArgs, disable |-> DisableArgs]

\* the create_client operations that have not generated their key yet
PendingCreates ==
    Cardinality({b \in Admins : /\ adm[b].op = "create_client"
                                /\ adm[b].status = 0
                                /\ adm[b].args = NoArgs})

StartAdmin(a, inputs) ==
    /\ adm[a].op = "none"
    /\ \E i \in inputs :
          /\ i.op = "create_client" => minted + PendingCreates < MaxCreates
          /\ adm' = [adm EXCEPT ![a] = [IdleAdm EXCEPT !.op = i.op, !.hdr = i.hdr,
                                                   !.qs = i.qs, !.ip = 1]]
    /\ UNCHANGED <<clients, services, env, cache, now, issued, req, san, fsys, minted>>

FinishAdmin(a) ==
    /\ AdminDone(a)
    /\ adm' = [adm EXCEPT ![a] = IdleAdm]
    /\ UNCHANGED <<clients, services, env, cache, now, issued, req, san, fsys, minted>>

RequireAdmin(a) ==
    /\ AdminStep(a) = "admin"
    /\ LET res == require_admin(adm[a].hdr, adm[a].qs)
       IN  IF res.status # 0
           THEN AdminRaise(a, res)
           ELSE adm' = [adm EXCEPT ![a].ip = @ + 1]
    /\ UNCHANGED <<clients, services, env, cache, now, issued, req, san, fsys, minted>>

\* load_services() / load_clients(); the list handlers return what they read
LoadRegistry(a) ==
    /\ AdminStep(a) = "load"
    /\ LET res == load_json(RegistryOf(adm[a].op))
       IN  IF res.status # 0
           THEN adm' = [adm EXCEPT ![a] = [@ EXCEPT !.status = res.status,
                                                    !.detail = res.detail,
                                                    !.nRead = @ + 1,
                                                    !.body = [kind |-> "error"]]]
           ELSE IF adm[a].op \in {"list_services", "list_clients"}
           THEN adm' = [adm EXCEPT ![a] = [@ EXCEPT !.status = 200,
                                                    !.cfg = res.rec,
                                                    !.nRead = @ + 1,
                                                    !.body = [kind |-> "registry",
                                                              doc |-> res.rec]]]
           ELSE adm' = [adm EXCEPT ![a] = [@ EXCEPT !.cfg = res.rec,
                                                    !.nRead = @ + 1,
                                                    !.ip = @ + 1]]
    /\ UNCHANGED <<clients, services, env, cache, now, issued, req, san, fsys, minted>>

\* the handler's work on the document it loaded, up to write_json_atomic
UpdateRegistry(a, inputs) ==
    /\ AdminStep(a) = "update"
    /\ LET q == adm[a]
           Go(args, res) ==
               IF res.status # 0
               THEN adm' = [adm EXCEPT ![a] = [@ EXCEPT !.args = args,
                                                        !.status = res.status,
                                                        !.detail = res.detail,
                                                        !.body = [kind |-> "error"]]]
               ELSE adm' = [adm EXCEPT ![a] = [@ EXCEPT !.args = args,
                                                        !.cfg = res.rec,
                                                        !.ip = @ + 1]]
       IN  CASE q.op = "register_service" ->
                  /\ \E x \in inputs.register :
                        Go(x, register_service(q.cfg, x.alias,
                                               x.feature_layer_query_url,
                                               x.vector_tile_base,
                                               x.allowed_out_fields))
                  /\ UNCHANGED minted
             [] q.op = "create_client" ->
                  /\ minted < MaxCreates
                  /\ minted' = minted + 1
                  /\ \E x \in inputs.create :
                        LET new_key == NewKey(minted + 1)
                        IN  Go([x EXCEPT !.client_key = new_key],
                               create_client(q.cfg, new_key, x.name, x.services,
                                             x.disabled))
             [] q.op = "disable_client" ->
                  /\ \E x \in inputs.disable :
                        Go(x, disable_client(q.cfg, x.client_key, x.disabled))
                  /\ UNCHANGED minted
    /\ UNCHANGED <<clients, services, env, cache, now, issued, req, san, fsys>>

(* write_json_atomic: tmp.write_text opens (and truncates) the temporary    *)
(* file, writes and closes it; tmp.replace renames it onto the registry file *)

OpenTmp(a) ==
    /\ AdminStep(a) = "open"
    /\ LET R == RegistryOf(adm[a].op)
       IN  SetFiles(R, MainFile(R), EmptyFile)
    /\ adm' = [adm EXCEPT ![a] = [@ EXCEPT !.fd = "tmp", !.nWrite = @ + 1,
                                            !.ip = @ + 1]]
    /\ UNCHANGED <<env, cache, now, issued, req, san, minted>>

WriteTmp(a) ==
    /\ AdminStep(a) = "write"
    /\ LET R == RegistryOf(adm[a].op)
       IN  CASE adm[a].fd = "tmp" ->
                  \E f \in Written(fsys[R].tmp, adm[a].cfg) :
                     SetFiles(R, MainFile(R), f)
             [] adm[a].fd = "main" ->
                  \E f \in Written(MainFile(R), adm[a].cfg) :
                     SetFiles(R, f, fsys[R].tmp)
             [] OTHER -> UNCHANGED <<clients, services, fsys>>
    /\ adm' = [adm EXCEPT ![a] = [@ EXCEPT !.fd = "none", !.ip = @ + 1]]
    /\ UNCHANGED <<env, cache, now, issued, req, san, minted>>

\* what the handler returns after write_json_atomic
AdminOk(q) ==
    IF q.op = "create_client"
    THEN [kind |-> "created", client_key |-> q.args.client_key]
    ELSE [kind |-> "ok"]

\* tmp.replace(p): the temporary name is gone if another writer's rename took
\* it (FileNotFoundError); else the file under it becomes the registry file,
\* whoever still has it open
ReplaceTmp(a) ==
    /\ AdminStep(a) = "replace"
    /\ LET R == RegistryOf(adm[a].op)
       IN  IF fsys[R].tmp.state = "none"
           THEN /\ AdminRaise(a, Fail(500, "FileNotFoundError"))
                /\ UNCHANGED <<clients, services, fsys>>
           ELSE /\ SetFiles(R, fsys[R].tmp, NoFile)
                /\ adm' = [b \in Admins |->
                             IF b = a
                             THEN [adm[b] EXCEPT !.status = 200,
                                                 !.body = AdminOk(adm[b])]
                             ELSE IF RegistryOf(adm[b].op) # R THEN adm[b]
                             ELSE IF adm[b].fd = "tmp"
                             THEN [adm[b] EXCEPT !.fd = "main"]
                             ELSE IF adm[b].fd = "main"
                             THEN [adm[b] EXCEPT !.fd = "orphan"]
                             ELSE adm[b]]
    /\ UNCHANGED <<env, cache, now, issued, req, san, minted>>

HandleAdmin(a, inputs) ==
    \/ RequireAdmin(a)
    \/ LoadRegistry(a)
    \/ UpdateRegistry(a, inputs)
    \/ OpenTmp(a)
    \/ WriteTmp(a)
    \/ ReplaceTmp(a)
    \/ FinishAdmin(a)

----------------------------------------------------------------------------
(* The specification of the request pipeline: one request at a time, any     *)
(* endpoint, alias and key.                                                  *)

NoCache == [token |-> NoToken, expires_at |-> 0]
NoSan == [requested |-> NoneStr, allowed |-> <<>>, out |-> <<>>, done |-> FALSE]

Init ==
    /\ clients = InitClients
    /\ services = InitServices
    /\ env \in Envs
    /\ cache = NoCache
    /\ now = 0
    /\ issued = 0
    /\ req = [r \in Reqs |-> IdleReq]
    /\ san = NoSan
    /\ adm = [a \in Admins |-> IdleAdm]
    /\ fsys = InitFsys
    /\ minted = 0

Handle(r) ==
    \/ Authorize(r)
    \/ CheckKey(r)
    \/ RequireBase(r)
    \/ LoadService(r)
    \/ ListServices(r)
    \/ GetToken(r)
    \/ ExchangeReply(r)
    \/ SendUpstream(r)
    \/ RecvUpstream(r)
    \/ Finish(r)

Next ==
    \/ Start(1, Inputs)
    \/ Handle(1)
    \/ Tick

Spec == Init /\ [][Next]_vars

----------------------------------------------------------------------------
(* The specification of the token cache: concurrent authorized requests and  *)
(* the clock.                                                                *)

HandleToken(r) ==
    \/ Authorize(r)
    \/ LoadService(r)
    \/ GetToken(r)
    \/ ExchangeReply(r)
    \/ SendUpstream(r)
    \/ RecvUpstream(r)
    \/ Finish(r)

NextToken ==
    \/ \E r \in Reqs : Start(r, TokenInputs) \/ HandleToken(r)
    \/ Tick

\* the gateway base plays no part in a tile request
InitToken == Init /\ env.public_base # ""

SpecToken == InitToken /\ [][NextToken]_vars

----------------------------------------------------------------------------
(* The specification of sanitize_outfields: every requested text up to       *)
(* MaxLen characters against each whitelist.                                 *)

Chars == {"a", "b", "z", ",", " ", "*"}

Texts == UNION {[1..k -> Chars] : k \in 0..MaxLen}

AllowedLists == {<<FA>>, <<FA, FB>>, <<FB, FA>>, <<<<"a", "b">>, FA>>}

InitSan ==
    /\ clients = InitClients
    /\ services = InitServices
    /\ env = EnvOk
    /\ cache = NoCache
    /\ now = 0
    /\ issued = 0
    /\ req = [r \in Reqs |-> IdleReq]
    /\ san \in [requested : Texts \cup {NoneStr}, allowed : AllowedLists,
                out : {<<>>}, done : {FALSE}]
    /\ adm = [a \in Admins |-> IdleAdm]
    /\ fsys = InitFsys
    /\ minted = 0

Sanitize ==
    /\ ~san.done
    /\ san' = [san EXCEPT !.out = sanitize_outfields(san.requested, san.allowed),
                          !.done = TRUE]
    /\ UNCHANGED <<clients, services, env, cache, now, issued, req, adm, fsys, minted>>

NextSan == Sanitize

SpecSan == InitSan /\ [][NextSan]_vars

----------------------------------------------------------------------------
(* The specification of the admin operations: one operation at a time, any   *)
(* operation, key and arguments, with or without a configured admin key.     *)

\* a Services registry whose definitions are all well formed
AdminServices == [a \in {"parks"} |-> ServiceDef(GoodUrl, "vt", <<FA, FB>>)]

AdminEnvs == {EnvOk, [EnvOk EXCEPT !.admin_key = <<>>]}

InitAdmin ==
    /\ clients = InitClients
    /\ services = AdminServices
    /\ env \in AdminEnvs
    /\ cache = NoCache
    /\ now = 0
    /\ issued = 0
    /\ req = [r \in Reqs |-> IdleReq]
    /\ san = NoSan
    /\ adm = [a \in Admins |-> IdleAdm]
    /\ fsys = InitFsys
    /\ minted = 0

NextAdmin ==
    \/ StartAdmin(1, AdminInputs)
    \/ HandleAdmin(1, AdminArgs)

SpecAdmin == InitAdmin /\ [][NextAdmin]_vars

(* The specification of the registry files: concurrent operations on the     *)
(* Clients registry by holders of the admin key.                             *)

FileInputs == [op : {"list_clients", "disable_client"}, hdr : {<<"s">>}, qs : {NoneStr}]

FileArgs ==
    [register |-> {}, create |-> {},
     disable |-> {[NoArgs EXCEPT !.client_key = K1, !.disabled = d] :
                     d \in BOOLEAN}]

InitFiles == InitAdmin /\ env = EnvOk

NextFiles ==
    \E a \in Admins :
        \/ StartAdmin(a, FileInputs)
        \/ HandleAdmin(a, FileArgs)

SpecFiles == InitFiles /\ [][NextFiles]_vars

(* The specification of overlapping admin mutations of the Clients registry: *)
(* clients are created and disabled, none is enabled again.                  *)

NextLost ==
    LET inputs == [op : {"create_client", "disable_client"},
                   hdr : {<<"s">>}, qs : {NoneStr}]
        args == [register |-> {},
                 create |-> {[NoArgs EXCEPT !.name = "new"]},
                 disable |-> {[NoArgs EXCEPT !.client_key = k, !.disabled = TRUE] :
                                 k \in {K1, K2}}]
    IN  \E a \in Admins :
            \/ StartAdmin(a, inputs)
            \/ HandleAdmin(a, args)

SpecLost == InitFiles /\ [][NextLost]_vars

----------------------------------------------------------------------------
(* Properties of access control, checked under Spec *)

IsBlank(s) == \A i \in 1..Len(s) : s[i] = " "

\* s without the blanks around it
Trim(s) ==
    IF IsBlank(s) THEN <<>>
    ELSE LET first == CHOOSE i \in 1..Len(s) :
                          s[i] # " " /\ \A j \in 1..(i - 1) : s[j] = " "
             last == CHOOSE i \in 1..Len(s) :
                         s[i] # " " /\ \A j \in (i + 1)..Len(s) : s[j] = " "
         IN  SubSeq(s, first, last)

Given(s) == s # NoneStr /\ Len(s) > 0

\* the key a request presents: the header if one is given, else the query or
\* path parameter if one is given, without the blanks around it; empty if none
KeyOf(r) ==
    IF Given(req[r].hdr) THEN Trim(req[r].hdr)
    ELSE IF Given(req[r].qs) THEN Trim(req[r].qs)
    ELSE <<>>

Registered(k) == k \in DOMAIN clients
Enabled(k) == Registered(k) /\ ~clients[k].disabled
Excludes(k, alias) ==
    clients[k].services # <<>> /\ ~InList(alias, clients[k].services)

AliasScoped(r) == req[r].ep \notin {"none", "services"}

\* C1: a request whose key is not in the Clients registry, or whose record is
\* disabled, is never authorized and ends with the authorization failure 401,
\* on every protected endpoint, whatever the record's other fields and the
\* alias; it makes no upstream call.
C1_UnusableKeyDenied ==
    \A r \in Reqs :
        (req[r].ep # "none" /\ ~Enabled(KeyOf(r))) =>
            /\ ~req[r].authorized
            /\ req[r].nAuth = 0 /\ req[r].nData = 0
            /\ Done(r) => req[r].status = 401

\* a sprite request carrying a disabled key whose service list names the alias
C1_Witness ==
    \E r \in Reqs :
        /\ req[r].ep = "sprite_png" /\ req[r].alias = "roads"
        /\ KeyOf(r) = K4 /\ Done(r) /\ req[r].status = 401

\* C2 as stated: every alias-scoped request of a registered key whose service
\* list is non-empty and lacks the alias ends 403, and every enabled key with
\* an empty service list is authorized for every registered alias.
C2_Original ==
    \A r \in Reqs :
        (AliasScoped(r) /\ Registered(KeyOf(r))) =>
            /\ (Excludes(KeyOf(r), req[r].alias) /\ Done(r)) => req[r].status = 403
            /\ ( /\ Enabled(KeyOf(r)) /\ clients[KeyOf(r)].services = <<>>
                 /\ req[r].alias \in DOMAIN services
                 /\ Done(r) ) => req[r].authorized

\* C2 amended: the 403 is the answer for an enabled key; a disabled key is
\* answered 401 whatever its service list.
C2_EnabledKeyScopedToServices ==
    \A r \in Reqs :
        (AliasScoped(r) /\ Enabled(KeyOf(r))) =>
            /\ Excludes(KeyOf(r), req[r].alias) =>
                  /\ ~req[r].authorized
                  /\ Done(r) => req[r].status = 403
            /\ ( /\ clients[KeyOf(r)].services = <<>>
                 /\ req[r].alias \in DOMAIN services
                 /\ (Done(r) \/ req[r].ip > 1) ) => req[r].authorized

\* an enabled key restricted to "parks" asks for the registered alias "roads"
C2_Witness ==
    \E r \in Reqs :
        /\ req[r].ep = "tile" /\ req[r].alias = "roads" /\ KeyOf(r) = K2
        /\ Done(r) /\ req[r].status = 403

\* the outcome authorize must give, by the claimed precedence
Expected(r) ==
    LET k == KeyOf(r)
    IN  IF k = <<>> THEN Fail(401, "Unauthorized: missing key")
        ELSE IF ~Registered(k) THEN Fail(401, "Unauthorized: invalid key")
        ELSE IF clients[k].disabled THEN Fail(401, "Unauthorized: key disabled")
        ELSE IF Excludes(k, req[r].alias)
        THEN Fail(403, "Forbidden: service not allowed for this key")
        ELSE Pass(clients[k])

\* C3: authorize gives exactly one outcome, the earliest that applies of
\* MissingKey, InvalidKey, KeyDisabled (all 401), ServiceForbidden (403), and
\* otherwise returns the matched client record.
C3_AuthorizePrecedence ==
    \A r \in Reqs :
        (AliasScoped(r) /\ (Done(r) \/ req[r].ip > 1)) =>
            IF Expected(r).status = 0
            THEN req[r].authorized /\ req[r].rec = Expected(r).rec
            ELSE /\ ~req[r].authorized
                 /\ req[r].status = Expected(r).status
                 /\ req[r].detail = Expected(r).detail

\* a disabled key that is also not permitted for the alias: KeyDisabled wins
C3_Witness ==
    \E r \in Reqs :
        /\ req[r].ep = "query" /\ req[r].alias = "parks" /\ KeyOf(r) = K4
        /\ Done(r) /\ req[r].detail = "Unauthorized: key disabled"

\* C4: within one request no credential exchange and no upstream call is made
\* before its authorization has succeeded; a request answered 403 has made none.
C4_NoUpstreamBeforeAuthorization ==
    \A r \in Reqs :
        /\ (req[r].nAuth > 0 \/ req[r].nData > 0 \/ req[r].token # NoToken) =>
               req[r].authorized
        /\ (Done(r) /\ req[r].status = 403) =>
               req[r].nAuth = 0 /\ req[r].nData = 0

\* a tile request for an alias the key is not permitted for, answered 403
C4_Witness ==
    \E r \in Reqs :
        /\ req[r].ep = "tile" /\ req[r].alias = "ghost" /\ KeyOf(r) = K2
        /\ Done(r) /\ req[r].status = 403
        /\ req[r].nAuth = 0 /\ req[r].nData = 0 /\ issued > 0

----------------------------------------------------------------------------
(* Properties of the token cache, checked under SpecToken *)

Exchanging == {r \in Reqs : Step(r) = "exchange"}

\* C5: at most one credential exchange is in flight at any time.
C5_AtMostOneExchangeInFlight == Cardinality(Exchanging) <= 1

\* the cached token is usable: one is cached and the time is strictly more
\* than 60 seconds before its expiry
Usable == cache.token # NoToken /\ now + 60 < cache.expires_at

\* request r makes its call of get_agol_token in this step
CallsGetToken(r) == Step(r) = "token" /\ req'[r] # req[r]

ReturnsCached(r) ==
    /\ req'[r].status = 0 /\ req'[r].src = "cache"
    /\ req'[r].token = cache.token
    /\ issued' = issued /\ req'[r].nAuth = req[r].nAuth /\ cache' = cache

PostsExchange(r) ==
    /\ req'[r].status = 0 /\ req'[r].token = NoToken
    /\ req'[r].ip = req[r].ip + 1 /\ Pipeline(req[r].ep)[req'[r].ip] = "exchange"
    /\ issued' = issued + 1 /\ req'[r].nAuth = req[r].nAuth + 1

\* C6 as stated: the call returns the cached token with no network call exactly
\* when the cached token is usable, and otherwise performs a credential exchange.
C6_Original ==
    [][\A r \in Reqs :
          CallsGetToken(r) => IF Usable THEN ReturnsCached(r) ELSE PostsExchange(r)]_vars

Configured == env.auth_type = "generateToken" /\ env.creds

FailsUnconfigured(r) ==
    /\ req'[r].status = 500 /\ req'[r].token = NoToken
    /\ issued' = issued /\ req'[r].nAuth = req[r].nAuth /\ cache' = cache

\* C6 amended: when the cached token is not usable the call never returns it:
\* it performs a credential exchange, except that with an unsupported auth
\* type or missing credentials it fails with 500 and makes no exchange.
C6_CachedExactlyWhenUsable ==
    [][\A r \in Reqs :
          CallsGetToken(r) =>
              IF Usable THEN ReturnsCached(r)
              ELSE IF Configured THEN PostsExchange(r)
              ELSE FailsUnconfigured(r)]_vars

\* one request was given the cached token, and another, calling exactly 60
\* seconds before the expiry of that token, has posted an exchange
C6_Witness ==
    \E r, q \in Reqs :
        /\ req[r].src = "cache" /\ req[r].token = cache.token
        /\ cache.token # NoToken /\ now + 60 = cache.expires_at
        /\ Step(q) = "exchange"

\* C7: the cache holds the token of the most recently issued exchange (tokens
\* are numbered in the order their exchanges were posted, so the cached number
\* never goes down), and a call of get_agol_token made while the cached token
\* is usable returns it without a further exchange.
C7_LatestExchangeWins ==
    [][/\ cache'.token >= cache.token
       /\ \A r \in Reqs : (CallsGetToken(r) /\ Usable) => ReturnsCached(r)]_vars

----------------------------------------------------------------------------
(* Properties of the query sanitizer *)

Emit(names, cur) == IF IsBlank(cur) THEN names ELSE Append(names, Trim(cur))

\* the comma-separated names of s, trimmed, blanks dropped, read left to right
RECURSIVE Names(_, _, _)
Names(s, cur, names) ==
    IF s = <<>> THEN Emit(names, cur)
    ELSE IF Head(s) = "," THEN Names(Tail(s), <<>>, Emit(names, cur))
    ELSE Names(Tail(s), Append(cur, Head(s)), names)

RECURSIVE Listed(_)
Listed(l) ==
    IF l = <<>> THEN <<>>
    ELSE IF Len(l) = 1 THEN l[1]
    ELSE Listed(SubSeq(l, 1, Len(l) - 1)) \o <<",">> \o l[Len(l)]

Reference(requested, allowed) ==
    IF requested = NoneStr \/ requested = <<>> \/ requested = <<"*">>
    THEN Listed(allowed)
    ELSE LET Member(n) == \E i \in 1..Len(allowed) : allowed[i] = n
             common == SelectSeq(Names(requested, <<>>, <<>>), Member)
         IN  IF common = <<>> THEN Listed(allowed) ELSE Listed(common)

\* C8: sanitize_outfields(requested, allowed) equals the reference: all of
\* allowed in registered order when requested is absent, empty or "*";
\* otherwise the requested names that are in allowed, in the caller's order;
\* and all of allowed when none is. Checked under SpecSan.
C8_SanitizeEqualsReference ==
    san.done => san.out = Reference(san.requested, san.allowed)

\* "a,z" against the whitelist a, b gives "a"
C8_Witness ==
    /\ san.done /\ san.requested = <<"a", ",", "z">> /\ san.allowed = <<FA, FB>>
    /\ san.out = <<"a">>

\* C9: the outFields sent upstream by query and identify is a non-empty list of
\* names, each one in the service's allowed_out_fields. Checked under Spec.
C9_OutFieldsWithinWhitelist ==
    \A r \in Reqs :
        (req[r].ep \in {"query", "identify"} /\ req[r].nData > 0) =>
            LET names == Names(req[r].sent.outFields, <<>>, <<>>)
                allowed == services[req[r].alias].allowed_out_fields
            IN  /\ names # <<>>
                /\ Listed(names) = req[r].sent.outFields
                /\ \A i \in 1..Len(names) :
                      \E k \in 1..Len(allowed) : allowed[k] = names[i]

\* the query asks for "a,z" and "a" alone is sent upstream
C9_Witness ==
    \E r \in Reqs :
        /\ req[r].ep = "query" /\ req[r].nData > 0
        /\ req[r].outFields = <<"a", ",", "z">>
        /\ req[r].sent.outFields = <<"a">>

\* C10: every feature of a successful query response carries only attribute
\* names of the service's allowed_out_fields. Checked under Spec.
C10_QueryResponseWithinWhitelist ==
    \A r \in Reqs :
        (req[r].ep = "query" /\ Done(r) /\ req[r].status = 200) =>
            LET feats == req[r].body.j.features
                allowed == services[req[r].alias].allowed_out_fields
            IN  \A i \in 1..Len(feats) :
                    \A n \in 1..Len(feats[i].attributes) :
                        \E k \in 1..Len(allowed) :
                            allowed[k] = feats[i].attributes[n]

----------------------------------------------------------------------------
(* Row locks, geometry and the identify response *)

\* the lock the Clients registry holds for the request's key and alias;
\* <<>> when there is none
LockOf(r) ==
    LET locks == clients[KeyOf(r)].where_lock
    IN  IF req[r].alias \in DOMAIN locks THEN locks[req[r].alias] ELSE <<>>

\* the where clause the client asked for: identify always asks for 1=1
ClientWhere(r) ==
    IF req[r].ep = "query" THEN req[r].where ELSE <<"1", "=", "1">>

Conjoined(w, lock) ==
    <<"(">> \o w \o <<")", " ", "A", "N", "D", " ", "(">> \o lock \o <<")">>

\* C11: whenever a query or identify request has called the feature layer,
\* the where parameter it sent is exactly (W) AND (L) if the client has a lock
\* L for the alias, and exactly W if it has none, W being the client's where
\* for query and 1=1 for identify. Checked under Spec.
C11_WhereLockAlwaysApplied ==
    \A r \in Reqs :
        (req[r].ep \in {"query", "identify"} /\ req[r].nData > 0) =>
            req[r].sent.where =
                IF LockOf(r) # <<>>
                THEN Conjoined(ClientWhere(r), LockOf(r))
                ELSE ClientWhere(r)

\* a locked client's query went upstream with its lock conjoined
C11_Witness ==
    \E r \in Reqs :
        /\ req[r].ep = "query" /\ req[r].nData > 0
        /\ KeyOf(r) = K2 /\ req[r].alias = "parks"
        /\ req[r].where = <<"p", ">", "0">>
        /\ req[r].sent.where =
              <<"(", "p", ">", "0", ")", " ", "A", "N", "D", " ",
                "(", "s", "=", "1", ")">>

\* the query request got a feature layer answer that reports no error
QueryAnswered(r) ==
    /\ req[r].ep = "query" /\ Done(r)
    /\ req[r].reply # NoReply /\ ~req[r].reply.has_error

\* C12: when the feature layer's answer to a query reports no error, the
\* response is a success in which no feature has a geometry member.
\* Checked under Spec.
C12_QueryFeaturesWithoutGeometry ==
    \A r \in Reqs :
        QueryAnswered(r) =>
            /\ req[r].status = 200
            /\ \A i \in 1..Len(req[r].body.j.features) :
                  ~req[r].body.j.features[i].geometry

\* two upstream features with geometry came back without it
C12_Witness ==
    \E r \in Reqs :
        /\ QueryAnswered(r)
        /\ Len(req[r].reply.features) = 2
        /\ \A i \in 1..2 : req[r].reply.features[i].geometry
        /\ \A i \in 1..2 : ~req[r].body.j.features[i].geometry

\* the positions of the whitelist whose name the upstream feature carries
KeptAt(allowed, f) ==
    {k \in 1..Len(allowed) :
        \E n \in 1..Len(f.attributes) : f.attributes[n] = allowed[k]}

\* a is the names of allowed at the positions at, in increasing position
InOrderOf(a, allowed, at) ==
    /\ Len(a) = Cardinality(at)
    /\ \A i \in 1..Len(a) :
          \E k \in at :
             /\ a[i] = allowed[k]
             /\ Cardinality({m \in at : m < k}) = i - 1

IdentifyAnswered(r) ==
    /\ req[r].ep = "identify" /\ Done(r)
    /\ req[r].reply # NoReply /\ ~req[r].reply.has_error

\* C13: when the feature layer's answer to an identify reports no error, the
\* response has one result per upstream feature, count is the number of
\* results, each result has an attributes member and nothing else (no
\* geometry), and its attributes are exactly the whitelisted names the
\* upstream feature carries, in whitelist order. Checked under Spec.
C13_IdentifyResultsWhitelisted ==
    \A r \in Reqs :
        IdentifyAnswered(r) =>
            LET res == req[r].body.results
                feats == req[r].reply.features
                allowed == services[req[r].alias].allowed_out_fields
            IN  /\ req[r].status = 200
                /\ req[r].body.count = Len(res)
                /\ Len(res) = Len(feats)
                /\ \A i \in 1..Len(res) :
                      /\ DOMAIN res[i] = {"attributes"}
                      /\ InOrderOf(res[i].attributes, allowed,
                                   KeptAt(allowed, feats[i]))

\* the upstream listed b before a and an unlisted z: the results list a, b
\* and nothing
C13_Witness ==
    \E r \in Reqs :
        /\ IdentifyAnswered(r)
        /\ req[r].reply.features =
              <<Feature(<<FB, FA>>, TRUE), Feature(<<FZ>>, TRUE)>>
        /\ req[r].body.count = 2
        /\ req[r].body.results =
              <<[attributes |-> <<FA, FB>>], [attributes |-> <<>>]>>

----------------------------------------------------------------------------
(* Style documents, byte fetches, unknown aliases and upstream errors *)

\* a URL of a style document that names the upstream host or carries a
\* session token
Leaks(u) == u.host = "upstream" \/ u.token # NoToken

\* C14: a style document the gateway returns contains neither the upstream
\* session token nor the upstream base URL, in its sprite, its glyphs or the
\* url and tiles of any source of any type. Checked under Spec.
C14_StyleHidesUpstream ==
    \A r \in Reqs :
        (req[r].ep = "style" /\ Done(r) /\ req[r].status = 200) =>
            LET st == req[r].body.style
            IN  /\ ~Leaks(st.sprite)
                /\ ~Leaks(st.glyphs)
                /\ \A n \in DOMAIN st.sources :
                      /\ ~Leaks(st.sources[n].url)
                      /\ \A i \in 1..Len(st.sources[n].tiles) :
                            ~Leaks(st.sources[n].tiles[i])

ByteEndpoints ==
    {"tile", "sprite_json", "sprite_png", "sprite2x_json", "sprite2x_png",
     "fonts"}

\* C15: on each byte-fetch endpoint, an upstream 404 is answered 404, any
\* other upstream failure is answered with a failure, and an upstream
\* success is answered with the upstream's payload unchanged.
\* Checked under Spec.
C15_ByteFetchStatusMapping ==
    \A r \in Reqs :
        (req[r].ep \in ByteEndpoints /\ Done(r) /\ req[r].reply # NoReply) =>
            LET up == req[r].reply
            IN  /\ up.status = 404 => req[r].status = 404
                /\ up.status \notin {200, 404} => req[r].status >= 500
                /\ up.status = 200 =>
                      /\ req[r].status = 200
                      /\ req[r].body.content = up.content

\* C16: an alias-scoped request that passes authorization and names an alias
\* the Services registry does not hold ends 404, having posted no credential
\* exchange and made no upstream call. Checked under Spec.
C16_UnknownAliasNotFound ==
    \A r \in Reqs :
        (/\ AliasScoped(r) /\ Done(r)
         /\ req[r].alias \notin DOMAIN services
         /\ Enabled(KeyOf(r)) /\ ~Excludes(KeyOf(r), req[r].alias)) =>
            /\ req[r].status = 404
            /\ req[r].nAuth = 0
            /\ req[r].nData = 0

\* the query or identify request got a feature layer answer that reports an
\* error
ErrorAnswered(r) ==
    /\ req[r].ep \in {"query", "identify"} /\ Done(r)
    /\ req[r].reply # NoReply /\ req[r].reply.has_error

\* C17: when the feature layer's answer to a query or an identify reports an
\* error, the response is 400 and its body is the upstream's answer as
\* received. Checked under Spec.
C17_UpstreamErrorVerbatim400 ==
    \A r \in Reqs :
        ErrorAnswered(r) =>
            /\ req[r].status = 400
            /\ req[r].body = [kind |-> "json", j |-> req[r].reply]

\* an identify whose upstream answer had an error and features with geometry
\* was answered 400 with that answer
C17_Witness ==
    \E r \in Reqs :
        /\ ErrorAnswered(r) /\ req[r].ep = "identify"
        /\ req[r].status = 400
        /\ Len(req[r].body.j.features) = 2
        /\ req[r].body.j.features[1].geometry

----------------------------------------------------------------------------
(* Properties of the admin operations and of the registry files *)

\* the text ends in the six characters /query
EndsInQuery(u) ==
    /\ Len(u) >= 6
    /\ <<u[Len(u) - 5], u[Len(u) - 4], u[Len(u) - 3], u[Len(u) - 2],
          u[Len(u) - 1], u[Len(u)]>> = <<"/", "q", "u", "e", "r", "y">>

\* C18: starting from a Services registry of well-formed definitions, after
\* any sequence of admin operations every registered definition has a
\* non-empty allowed_out_fields and a feature_layer_query_url that ends in
\* /query, and a register_service that failed has written nothing.
\* Checked under SpecAdmin.
C18_RegisteredServicesWellFormed ==
    /\ \A al \in DOMAIN services :
          /\ services[al].allowed_out_fields # <<>>
          /\ EndsInQuery(services[al].feature_layer_query_url)
    /\ \A a \in Admins :
          (/\ adm[a].op = "register_service"
           /\ AdminDone(a) /\ adm[a].status # 200) => adm[a].nWrite = 0

\* C19: whatever the interleaving of the writers and readers of a registry
\* file, every read of it gets a whole document, never a half-written or
\* mixed one. Checked under SpecFiles.
C19_ReadsSeeWholeDocuments ==
    \A a \in Admins :
        adm[a].nRead > 0 => adm[a].detail # "Invalid JSON"

\* the admin key the operation presents: the header if it has one, else the
\* query parameter, spaces around it dropped
AdminKeyOf(a) ==
    IF Given(adm[a].hdr) THEN Trim(adm[a].hdr)
    ELSE IF Given(adm[a].qs) THEN Trim(adm[a].qs)
    ELSE <<>>

\* no admin key is configured, or the operation does not present it
Unauthorized(a) ==
    adm[a].op # "none" /\ (ADMIN_KEY = <<>> \/ AdminKeyOf(a) # ADMIN_KEY)

----------------------------------------------------------------------------
(* Client records under the admin operations, and the list of services *)

\* the record is the same but, possibly, for its disabled member
SameButDisabled(old, new) ==
    /\ new.name = old.name
    /\ new.services = old.services
    /\ new.where_lock = old.where_lock

\* the step on which the operation in slot a returns success
Completes(a, op) ==
    adm[a].op = op /\ adm[a].status = 0 /\ adm'[a].status = 200

\* what a step may do to the client records
ClientRecordsStep ==
    /\ \A k \in DOMAIN clients :
          /\ k \in DOMAIN clients'
          /\ SameButDisabled(clients[k], clients'[k])
    /\ (DOMAIN clients' # DOMAIN clients) =>
          \E a \in Admins :
             /\ Completes(a, "create_client")
             /\ adm[a].args.client_key \notin DOMAIN clients
             /\ DOMAIN clients' = DOMAIN clients \cup {adm[a].args.client_key}
             /\ \A k \in DOMAIN clients : clients'[k] = clients[k]
    /\ \A a \in Admins :
          Completes(a, "disable_client") =>
             \A k \in DOMAIN clients \ {adm[a].args.client_key} :
                 clients'[k] = clients[k]

\* C21: over the admin operations, taken one after another, a client record
\* that exists stays in the registry with its name, services and where_lock;
\* a step adds a record only as a create_client returns, and then exactly one,
\* under a key that was not present, all other records left as they were; a
\* disable_client touches no other record; and a disable_client of a key that
\* is not registered ends 404 having written nothing.
\* Checked under SpecAdmin.
C21_ClientRecordsFramed ==
    /\ [](\A a \in Admins :
            (/\ adm[a].op = "disable_client" /\ adm[a].args # NoArgs
             /\ adm[a].args.client_key \notin DOMAIN clients) =>
                /\ adm[a].status = 404
                /\ adm[a].nWrite = 0)
    /\ [][ClientRecordsStep]_vars

\* a create_client has returned its key, which is now registered, next to a
\* record that a disable_client had disabled before
C21_Witness ==
    \E a \in Admins :
        /\ adm[a].op = "create_client" /\ adm[a].status = 200
        /\ adm[a].body.client_key \in DOMAIN clients
        /\ adm[a].body.client_key \notin DOMAIN InitClients
        /\ clients[K1].disabled
        /\ clients[K1].name = "all"

\* the aliases a request's key may reach: the registered aliases its record
\* does not exclude
VisibleTo(r) ==
    {a \in DOMAIN services : Enabled(KeyOf(r)) /\ ~Excludes(KeyOf(r), a)}

\* C22: a successful GET /v1/services lists exactly the registered aliases
\* the caller's key is allowed: all of them when the record's services is
\* empty, else those it names; so never an alias whose authorization would
\* fail nor an unregistered one. Checked under Spec.
C22_ListsVisibleAliases ==
    \A r \in Reqs :
        (req[r].ep = "services" /\ Done(r) /\ req[r].status = 200) =>
            /\ req[r].body.services = VisibleTo(r)
            /\ req[r].body.services \subseteq DOMAIN services

\* the parks-only key was listed parks and not roads, which is registered
C22_Witness ==
    \E r \in Reqs :
        /\ req[r].ep = "services" /\ req[r].status = 200
        /\ KeyOf(r) = K2
        /\ "roads" \in DOMAIN services
        /\ req[r].body.services = {"parks"}

----------------------------------------------------------------------------
(* Failed exchanges and the usability of returned tokens, checked under      *)
(* SpecToken                                                                 *)

\* the authentication endpoint answered the request's exchange with an error
\* payload, or without a token or an expiry
GrantRefused(q) == q.grant # NoGrant /\ q.grant.has_error
GrantMalformed(q) ==
    /\ q.grant # NoGrant /\ ~q.grant.has_error
    /\ (q.grant.token = NoToken \/ q.grant.expires = 0)

\* C23: a request whose credential exchange was answered with an error
\* payload, or without token or expiry, ends 500 with a reason that tells the
\* two cases apart, receives no token and makes no upstream data call; and
\* the step on which the exchange fails leaves the cached token and expiry
\* as they were. Checked under SpecToken.
C23_FailedExchangeLeavesCache ==
    /\ [](\A r \in Reqs :
            /\ GrantRefused(req[r]) =>
                  /\ req[r].status = 500 /\ req[r].detail = "AGOL token error"
                  /\ req[r].token = NoToken /\ req[r].nData = 0
            /\ GrantMalformed(req[r]) =>
                  /\ req[r].status = 500
                  /\ req[r].detail = "AGOL token response missing token/expires"
                  /\ req[r].token = NoToken /\ req[r].nData = 0)
    /\ [][\A r \in Reqs :
             (/\ req[r].grant = NoGrant
              /\ GrantRefused(req'[r]) \/ GrantMalformed(req'[r])) =>
                 cache' = cache]_vars

\* an exchange was answered without a token while the cache held a token of
\* an earlier exchange: the request ended 500, the cache still holds it
C23_Witness ==
    \E r \in Reqs :
        /\ GrantMalformed(req[r]) /\ req[r].grant.expires = 0
        /\ req[r].status = 500
        /\ cache.token # NoToken /\ cache.token # req[r].xid

\* the step on which get_agol_token returns a token to the request
Receives(r) == req[r].token = NoToken /\ req'[r].token # NoToken

\* C24 as claimed: at the moment get_agol_token returns a token, on a cache
\* hit or after an exchange, the time is more than 60 seconds before the
\* expiry of that token. Checked under SpecToken.
C24_Original ==
    [][\A r \in Reqs :
          Receives(r) =>
             /\ cache'.token = req'[r].token
             /\ now < cache'.expires_at - 60]_vars

\* C24: a token returned on a cache hit is the cached token and the time is
\* more than 60 seconds before its expiry; a token obtained from an exchange
\* is returned, and cached with the reported expiry, without that test.
\* Checked under SpecToken.
C24_CachedTokenUsable ==
    [][\A r \in Reqs :
          Receives(r) =>
             IF req'[r].src = "cache"
             THEN /\ req'[r].token = cache.token
                  /\ now < cache.expires_at - 60
                  /\ req[r].nAuth = 0
             ELSE /\ req[r].nAuth = 1
                  /\ req'[r].token = req[r].xid
                  /\ cache'.token = req'[r].token
                  /\ cache'.expires_at \in {now + lt : lt \in Lifetimes}]_vars

\* a request holds a token it got from an exchange whose expiry is not more
\* than 60 seconds away, and is about to call the upstream with it
C24_Witness ==
    \E r \in Reqs :
        /\ req[r].src = "exchange" /\ Step(r) = "send"
        /\ cache.token = req[r].token
        /\ now >= cache.expires_at - 60

----------------------------------------------------------------------------
(* The style handler's checks, misconfigured services and the embedded key,  *)
(* checked under Spec                                                        *)

\* C25: a style request is answered by the first check that fails in the
\* order authorize, load service definition, require gateway base: an
\* authorization failure first, then 404 for an alias that is not registered,
\* whether or not the gateway base is configured; and a request that failed
\* one of these checks has posted no exchange and fetched no style.
C25_StyleCheckOrder ==
    \A r \in Reqs :
        (req[r].ep = "style" /\ Done(r)) =>
            /\ IF Expected(r).status # 0
               THEN /\ req[r].status = Expected(r).status
                    /\ req[r].detail = Expected(r).detail
               ELSE req[r].alias \notin DOMAIN services => req[r].status = 404
            /\ (req[r].status \in {401, 403, 404}
                    \/ req[r].detail = "Set PUBLIC_PROXY_BASE") =>
                  req[r].nAuth = 0 /\ req[r].nData = 0

\* the registered service lacks the field the endpoint needs
LacksField(ep, alias) ==
    /\ alias \in DOMAIN services
    /\ IF ep \in {"query", "identify"}
       THEN services[alias].allowed_out_fields = <<>>
       ELSE services[alias].vector_tile_base = ""

EmbeddedKeys(st) ==
    {u.key : u \in {v \in {st.sprite, st.glyphs} : v.host # "absent"}}
    \cup UNION {{st.sources[n].tiles[i].key : i \in 1..Len(st.sources[n].tiles)} :
                   n \in {m \in DOMAIN st.sources : st.sources[m].type = "vector"}}

\* C27: the client key in the rewritten tile, sprite and glyph URLs of a
\* returned style document is the key that was authorized for the request,
\* whatever the header key and the query key.
C27_StyleEmbedsAuthorizedKey ==
    \A r \in Reqs :
        (req[r].ep = "style" /\ Done(r) /\ req[r].status = 200) =>
            EmbeddedKeys(req[r].body.style) \subseteq {KeyOf(r)}

----------------------------------------------------------------------------
(* Completed admin mutations under overlapping operations *)

\* C28: while no operation enables a client again, once a disable_client of
\* key k has returned success the registry read by every later authorization
\* holds k disabled, and once a create_client has returned success the
\* registry holds the key it returned, whatever other admin operations ran
\* at the same time. Checked under SpecLost.
C28_NoLostAdminUpdate ==
    \A a \in Admins :
        (adm[a].status = 200 /\ load_json("clients").status = 0) =>
            /\ adm[a].op = "disable_client" =>
                  /\ adm[a].args.client_key \in DOMAIN clients
                  /\ clients[adm[a].args.client_key].disabled
            /\ adm[a].op = "create_client" =>
                  adm[a].body.client_key \in DOMAIN clients

====
